---- MODULE Spec2Model ----
(***************************************************************************)
(* Model of the food-delivery analysis scripts.                            *)
(*                                                                         *)
(*   src/Food_analysis.py  the cleaning / feature-engineering script: a    *)
(*                         straight-line program over the global frame df  *)
(*   src/food_analysis.py  the dashboard: RFM scoring and segment_customer *)
(*                                                                         *)
(* A data frame is a function from column names to columns, a column is a  *)
(* sequence indexed by row number.  Numbers are integers; the raw numeric  *)
(* inputs are multiples of Unit so that every median, quartile and         *)
(* 1.5*IQR the script computes is an integer too and the integer           *)
(* arithmetic below is exactly the float arithmetic of the script.         *)
(* A string is a sequence of one-character strings, so that strip, lower   *)
(* and title are computed character by character.                          *)
(***************************************************************************)
EXTENDS Integers, Sequences, FiniteSets, TLC

VARIABLES
    pc,        \* position in the script that is running
    raw,       \* contents of the raw csv file
    df,        \* the global data frame of src/Food_analysis.py
    fn,        \* the row classifier called last
    arg,       \* its argument
    res,       \* its result
    rfm_df,    \* the per-customer frame of src/food_analysis.py
    missing_data,             \* the missing-value report of src/Food_analysis.py
    cleaned_csv,              \* contents of the cleaned csv file
    msgs,                     \* what st.warning / st.error have shown
    sel,                      \* the sidebar selections of this render
    filtered_df,              \* the filtered frame of src/food_analysis.py
    metrics,                  \* the figures st.metric has shown in this render
    restaurant_cancellation,  \* the cancellation-by-restaurant view
    cache,                    \* what st.cache_data holds for load_data
    shared,                   \* whether filtered_df is the very object df
    copy_on_write             \* whether the installed pandas copies on write

dashVars == <<cleaned_csv, msgs, sel, filtered_df, metrics, restaurant_cancellation,
              cache, shared>>

vars == <<pc, copy_on_write, raw, df, fn, arg, res, rfm_df, missing_data, dashVars>>

----------------------------------------------------------------------------
(* Bounds and input alphabets                                              *)

MaxRows == 4
MaxReport == 10

Unit == 2 * 2 * 2 * 2 * 2 * 2 * 2

----------------------------------------------------------------------------
(* Missing values and infinities of float64 / object columns               *)

NaN == -1000000000
Inf == 1000000000
NegInf == -999999999

StrNaN == <<"NaN">>

IsNum(x) == x # NaN /\ x # Inf /\ x # NegInf

----------------------------------------------------------------------------
(* Strings                                                                 *)

UpperAlpha == <<"A","B","C","D","E","F","G","H","I","J","K","L","M",
                "N","O","P","Q","R","S","T","U","V","W","X","Y","Z">>
LowerAlpha == <<"a","b","c","d","e","f","g","h","i","j","k","l","m",
                "n","o","p","q","r","s","t","u","v","w","x","y","z">>

IsUpper(c) == \E i \in 1..26 : UpperAlpha[i] = c
IsLower(c) == \E i \in 1..26 : LowerAlpha[i] = c
IsAlpha(c) == IsUpper(c) \/ IsLower(c)
IsSpace(c) == c = " "

LowerChar(c) == IF IsUpper(c)
                THEN LowerAlpha[CHOOSE i \in 1..26 : UpperAlpha[i] = c]
                ELSE c
UpperChar(c) == IF IsLower(c)
                THEN UpperAlpha[CHOOSE i \in 1..26 : LowerAlpha[i] = c]
                ELSE c

\* str.lower()
str_lower(s) == IF s = StrNaN THEN StrNaN
                ELSE [i \in 1..Len(s) |-> LowerChar(s[i])]

\* str.strip(): leading and trailing whitespace removed
str_strip(s) ==
    IF s = StrNaN THEN StrNaN
    ELSE LET idx == {i \in 1..Len(s) : ~IsSpace(s[i])}
         IN  IF idx = {} THEN <<>>
             ELSE LET a == CHOOSE i \in idx : \A j \in idx : i <= j
                      b == CHOOSE i \in idx : \A j \in idx : i >= j
                  IN  SubSeq(s, a, b)

\* str.swapcase() in place of str.title(): every letter changes case
str_title_swapcase(s) ==
    IF s = StrNaN THEN StrNaN
    ELSE [i \in 1..Len(s) |-> IF IsUpper(s[i]) THEN LowerChar(s[i]) ELSE UpperChar(s[i])]

\* str.title(): a letter that follows a non-letter (or starts the string) is
\* upper-cased, every other letter is lower-cased; nothing is removed
str_title(s) ==
    IF s = StrNaN THEN StrNaN
    ELSE [i \in 1..Len(s) |->
            IF i = 1 \/ ~IsAlpha(s[i-1]) THEN UpperChar(s[i])
            ELSE LowerChar(s[i])]

----------------------------------------------------------------------------
(* Series operations of pandas used by the scripts                         *)

\* the numbers of s in ascending order: entry i goes to the place that
\* follows the entries below it and the equal entries before it
SortAsc(s) ==
    LET n == Len(s)
        pos == [i \in 1..n |->
                   1 + Cardinality({j \in 1..n :
                           s[j] < s[i] \/ (s[j] = s[i] /\ j < i)})]
    IN  \* comparing pos with itself tabulates it, so each rank is computed once
        IF pos = pos THEN [k \in 1..n |-> s[CHOOSE i \in 1..n : pos[i] = k]]
        ELSE <<>>

\* the non-missing values of a column, in row order
Present(col) == SelectSeq(col, LAMBDA x : x # NaN)

\* Series.median(): missing values are skipped; NaN for an empty column
median(col) ==
    LET s == SortAsc(Present(col))
        n == Len(s)
    IN  IF n = 0 THEN NaN
        ELSE IF n % 2 = 1 THEN s[(n + 1) \div 2]
        ELSE (s[n \div 2] + s[n \div 2 + 1]) \div 2

\* Series.quantile(num/den), linear interpolation between the two
\* neighbouring order statistics; missing values are skipped
quantile(col, num, den) ==
    LET s == SortAsc(Present(col))
        n == Len(s)
        pos == (n - 1) * num
        lo == pos \div den + 1
        r == pos % den
    IN  IF n = 0 THEN NaN
        ELSE IF r = 0 THEN s[lo]
        ELSE s[lo] + ((s[lo + 1] - s[lo]) * r) \div den

\* the integer nearest to a / b (b > 0), a tie going to the even one
RoundHalfEven(a, b) ==
    LET q == a \div b
        r == a % b
    IN  IF 2 * r < b THEN q
        ELSE IF 2 * r > b THEN q + 1
        ELSE IF q % 2 = 0 THEN q ELSE q + 1

\* Series.fillna(v)
fillna(col, v) == [i \in 1..Len(col) |-> IF col[i] = NaN THEN v ELSE col[i]]

fillna_str(col, v) == [i \in 1..Len(col) |-> IF col[i] = StrNaN THEN v ELSE col[i]]

\* Series.clip(lower, upper): a NaN threshold does not clip, a NaN value stays
clip(col, lower, upper) ==
    [i \in 1..Len(col) |->
        IF col[i] = NaN THEN NaN
        ELSE IF lower # NaN /\ col[i] < lower THEN lower
        ELSE IF upper # NaN /\ col[i] > upper THEN upper
        ELSE col[i]]

\* df[name] = col
SetCol(t, name, col) ==
    [c \in DOMAIN t \cup {name} |-> IF c = name THEN col ELSE t[c]]

NRows(t) == Len(t["Order_ID"])

\* the numbers of the set S in ascending order
AscOf(S) ==
    LET below == [a \in S |-> Cardinality({b \in S : b < a})]
    IN  IF below = below
        THEN [k \in 1..Cardinality(S) |-> CHOOSE a \in S : below[a] = k - 1]
        ELSE <<>>

\* every order of the members of S
RECURSIVE Perms(_)
Perms(S) ==
    IF S = {} THEN {<<>>}
    ELSE UNION {{<<x>> \o p : p \in Perms(S \ {x})} : x \in S}

\* the orders of the positions of key that take its values in the order
\* ks: the positions of ks[1] in any order, then those of ks[2], ...
RECURSIVE TiedOrders(_, _)
TiedOrders(key, ks) ==
    IF ks = <<>> THEN {<<>>}
    ELSE {p \o rest : p \in Perms({i \in DOMAIN key : key[i] = ks[1]}),
                      rest \in TiedOrders(key, Tail(ks))}

\* sort_values: the rows of seq by ascending key (key[i] is the sort key of
\* row i). The default kind='quicksort' is not stable, and which way rows
\* with equal keys come out depends on the numpy build (insertion sort of a
\* short array keeps them in place, the vectorised sorts do not): the
\* result is any one of the orders in this set
sort_values(seq, key) ==
    LET keys == AscOf({key[i] : i \in 1..Len(seq)})
    IN  {[k \in 1..Len(seq) |-> seq[o[k]]] : o \in TiedOrders(key, keys)}

----------------------------------------------------------------------------
(* Values of the columns                                                   *)

Cancelled == <<"c","a","n","c","e","l","l","e","d">>
NotCancelled == <<"N","o","t"," ","C","a","n","c","e","l","l","e","d">>

\* df.loc[rows, name] = None: the column is created (all missing) when the
\* frame does not have it, and the selected rows are set to missing
SetNone(t, name, rows) ==
    LET old == IF name \in DOMAIN t THEN t[name]
               ELSE [i \in 1..NRows(t) |-> NaN]
    IN  SetCol(t, name, [i \in 1..NRows(t) |-> IF i \in rows THEN NaN ELSE old[i]])

----------------------------------------------------------------------------
(* src/Food_analysis.py: cleaning                                          *)

\* the columns of the csv file, in file order
ColumnOrder == <<"Order_ID", "Customer_ID", "Customer_Age", "Restaurant_Name",
                 "City", "Cuisine_Type", "Order_Date", "Order_Time",
                 "Order_Value", "Final_Amount", "Delivery_Time_Min",
                 "Order_Status", "Cancellation_Reason", "Restaurant_Rating",
                 "Delivery_Rating", "Profit_Margin">>

TextColumns == {"Restaurant_Name", "City", "Cuisine_Type", "Order_Status",
                "Cancellation_Reason"}

\* isnull() of one cell; an Order_Time that does not parse is still text
isnull(c, v) ==
    IF c \in TextColumns THEN v = StrNaN
    ELSE IF c = "Order_Time" THEN FALSE
    ELSE v = NaN

\* df.isnull().sum() of one column
NullCount(t, c) == Cardinality({i \in 1..Len(t[c]) : isnull(c, t[c][i])})

\* the report sorted by Missing_Count ascending
MissingReport_ascending(t) ==
    LET cols == SelectSeq(ColumnOrder, LAMBDA c : c \in DOMAIN t /\ NullCount(t, c) > 0)
        rows == [k \in 1..Len(cols) |->
                    [Column |-> cols[k],
                     Missing_Count |-> NullCount(t, cols[k]),
                     Missing_Percentage |->
                         RoundHalfEven(NullCount(t, cols[k]) * 10000, NRows(t))]]
    IN  sort_values(rows, [k \in 1..Len(rows) |-> rows[k].Missing_Count])

\* lines 51-58: one row per column with Missing_Count > 0, sorted by
\* Missing_Count descending; Missing_Percentage is held in hundredths. The
\* reports the sort can give, one for each order of the tied columns
MissingReport(t) ==
    LET cols == SelectSeq(ColumnOrder, LAMBDA c : c \in DOMAIN t /\ NullCount(t, c) > 0)
        rows == [k \in 1..Len(cols) |->
                    [Column |-> cols[k],
                     Missing_Count |-> NullCount(t, cols[k]),
                     Missing_Percentage |->
                         RoundHalfEven(NullCount(t, cols[k]) * 10000, NRows(t))]]
    IN  sort_values(rows, [k \in 1..Len(rows) |-> -rows[k].Missing_Count])

\* lines 66-69: median imputation and the 'Not Cancelled' sentinel, each
\* filled in place on the selected column df[col]. Without copy-on-write
\* (pandas 1.x, 2.x by default) the selection is a view and the fill writes
\* through to df; with copy-on-write (pandas 3, or the option set in 2.x)
\* the selection is a new object, the fill is lost and df stays as it was
\* (the warning this raises is silenced by line 13)
FillMissing(t, cow) ==
    IF cow THEN t ELSE
    LET t1 == SetCol(t, "Delivery_Time_Min",
                     fillna(t["Delivery_Time_Min"], median(t["Delivery_Time_Min"])))
        t2 == SetCol(t1, "Order_Value",
                     fillna(t1["Order_Value"], median(t1["Order_Value"])))
    IN  SetCol(t2, "Cancellation_Reason",
               fillna_str(t2["Cancellation_Reason"], NotCancelled))

\* lines 83-84: the Tukey fences of a column
LowerFence(col) ==
    LET Q1 == quantile(col, 1, 4)
        Q3 == quantile(col, 3, 4)
        IQR == Q3 - Q1
    IN  IF Q1 = NaN THEN NaN ELSE Q1 - (3 * IQR) \div 2

UpperFence(col) ==
    LET Q1 == quantile(col, 1, 4)
        Q3 == quantile(col, 3, 4)
        IQR == Q3 - Q1
    IN  IF Q1 = NaN THEN NaN ELSE Q3 + (3 * IQR) \div 2

\* clip(lower) in place of clip(lower, upper)
cap_outliers_lower_only(t, column) ==
    SetCol(t, column, clip(t[column], LowerFence(t[column]), NaN))

\* lines 78-86
cap_outliers(t, column) ==
    SetCol(t, column, clip(t[column], LowerFence(t[column]), UpperFence(t[column])))

\* lines 89-90
CapColumns(t) == cap_outliers(cap_outliers(t, "Order_Value"), "Delivery_Time_Min")

\* the rating clipped from below only
ClipInvalid_no_upper(t) ==
    LET t1 == SetCol(t, "Restaurant_Rating", clip(t["Restaurant_Rating"], 0, NaN))
    IN  SetCol(t1, "Profit_Margin", clip(t1["Profit_Margin"], 0, NaN))

\* lines 94-100: ratings into [0, 5], profit margin not negative
ClipInvalid(t) ==
    LET t1 == SetCol(t, "Restaurant_Rating", clip(t["Restaurant_Rating"], 0, 5))
        t2 == SetCol(t1, "Profit_Margin", clip(t1["Profit_Margin"], 0, NaN))
    IN  IF "Profit_Margin" \in DOMAIN t2
        THEN SetCol(t2, "Profit_Margin",
                    [i \in 1..NRows(t2) |->
                        IF t2["Profit_Margin"][i] # NaN /\ t2["Profit_Margin"][i] < 0
                        THEN 0 ELSE t2["Profit_Margin"][i]])
        ELSE t2

\* lines 103-104
Standardize(t) ==
    LET t1 == SetCol(t, "City", [i \in 1..NRows(t) |-> str_title(t["City"][i])])
    IN  SetCol(t1, "Order_Status",
               [i \in 1..NRows(t1) |-> str_lower(str_strip(t1["Order_Status"][i]))])

\* line 111
LogicalConsistency(t) ==
    SetNone(t, "restaurant_rating",
            {i \in 1..NRows(t) : t["Order_Status"][i] = Cancelled})

\* lines 115-119: only the lower-case columns order_date / order_time are
\* converted, and only when the frame has them
ConvertTypes(t) ==
    LET t1 == IF "order_date" \in DOMAIN t THEN SetCol(t, "order_date", t["order_date"]) ELSE t
    IN  IF "order_time" \in DOMAIN t1 THEN SetCol(t1, "order_time", t1["order_time"]) ELSE t1

\* lines 66-119, the cleaning stage as one function of the frame
CleanTable(t, cow) ==
    ConvertTypes(LogicalConsistency(Standardize(ClipInvalid(CapColumns(FillMissing(t, cow))))))

----------------------------------------------------------------------------
(* src/Food_analysis.py: feature engineering                               *)

\* Order_Date is held as a day number (days since 1970-01-01, a Thursday),
\* NaN when the text did not parse; Series.dt.dayofweek has Monday = 0
dayofweek(d) == IF d = NaN THEN NaN ELSE (d + 3) % 7

\* line 158 (a comparison with NaN is false)
order_day(x) == IF x # NaN /\ x >= 5 THEN "Weekend" ELSE "Weekday"

\* Order_Time is held as <<hour, minute>>, <<>> when the text did not parse
\* line 164
hour_of(tm) == IF tm = <<>> THEN NaN ELSE tm[1]

\* the evening window closed one hour early
peak_hour_strict(x) ==
    IF x # NaN /\ ((12 <= x /\ x <= 14) \/ (19 <= x /\ x < 22)) THEN 1 ELSE 0

\* line 170
peak_hour(x) ==
    IF x # NaN /\ ((12 <= x /\ x <= 14) \/ (19 <= x /\ x <= 22)) THEN 1 ELSE 0

\* lines 175-177: (Profit_Margin / Order_Value * 100).round(2), held in
\* hundredths of a percent.  Float division by zero gives an infinity, and
\* NaN for 0 / 0; round() keeps both.
profit_margin_pct(pm, ov) ==
    IF pm = NaN \/ ov = NaN THEN NaN
    ELSE IF ov = 0 THEN (IF pm > 0 THEN Inf ELSE IF pm < 0 THEN NegInf ELSE NaN)
    ELSE IF ov > 0 THEN RoundHalfEven(pm * 10000, ov)
    ELSE RoundHalfEven(-(pm * 10000), -ov)

\* strict comparisons in place of <=
delivery_category_strict(time) ==
    IF time # NaN /\ time < 30 THEN "Fast"
    ELSE IF time # NaN /\ time < 45 THEN "On-Time"
    ELSE "Delayed"

\* lines 181-187 (a comparison with NaN is false)
delivery_category(time) ==
    IF time # NaN /\ time <= 30 THEN "Fast"
    ELSE IF time # NaN /\ time <= 45 THEN "On-Time"
    ELSE "Delayed"

\* lines 194-200
age_group(age) ==
    IF age # NaN /\ age < 25 THEN "Youth"
    ELSE IF age # NaN /\ age < 40 THEN "Adult"
    ELSE "Senior"

\* lines 154-202
FeatureEngineering(t) ==
    LET n == NRows(t)
        t1 == SetCol(t, "Order_Day",
                     [i \in 1..n |-> order_day(dayofweek(t["Order_Date"][i]))])
        t2 == SetCol(t1, "order_hour", [i \in 1..n |-> hour_of(t["Order_Time"][i])])
        t3 == SetCol(t2, "peak_hour", [i \in 1..n |-> peak_hour(t2["order_hour"][i])])
        t4 == SetCol(t3, "Profit_Margin_pct",
                     [i \in 1..n |-> profit_margin_pct(t["Profit_Margin"][i],
                                                       t["Order_Value"][i])])
        t5 == SetCol(t4, "delivery_performance",
                     [i \in 1..n |-> delivery_category(t["Delivery_Time_Min"][i])])
    IN  SetCol(t5, "customer_age_group",
               [i \in 1..n |-> age_group(t["Customer_Age"][i])])

----------------------------------------------------------------------------
(* Raw input tables                                                        *)

Columns == {"Order_ID", "Order_Value", "Delivery_Time_Min", "Restaurant_Rating",
            "Delivery_Rating", "Profit_Margin", "Order_Status",
            "Cancellation_Reason", "City", "Order_Date", "Order_Time",
            "Customer_Age"}

Delivered == <<"D","e","l","i","v","e","r","e","d">>

Amounts == {NaN, 0, Unit, 2 * Unit, 40 * Unit}
Ratings == {NaN, -1, 3, 7}
Margins == {NaN, -Unit, 0, Unit}
Statuses == {Delivered,
             <<"C","a","n","c","e","l","l","e","d">>,
             <<" ","c","a","n","c","e","l","l","e","d"," ">>,
             <<"C","A","N","C","E","L","L","E","D">>}
Reasons == {StrNaN, <<"L","a","t","e">>}
Cities == {<<"P","u","n","e">>, <<"p","u","n","e">>, <<"p","U","N","E"," ">>}
Times == {<<>>, <<11, 59>>, <<12, 0>>, <<14, 59>>, <<15, 0>>, <<18, 30>>,
          <<19, 0>>, <<22, 59>>, <<23, 0>>}
Dates == {NaN, 20454, 20455, 20456, 20457}
Ages == {24, 25, 39, 40}

DefaultRow(i) ==
    [Order_ID |-> i, Order_Value |-> 2 * Unit, Delivery_Time_Min |-> 30,
     Restaurant_Rating |-> 4, Delivery_Rating |-> 4, Profit_Margin |-> Unit,
     Order_Status |-> Delivered, Cancellation_Reason |-> StrNaN,
     City |-> <<"P","u","n","e">>, Order_Date |-> 20454, Order_Time |-> <<13, 0>>,
     Customer_Age |-> 30]

FrameOf(rows) == [c \in Columns |-> [i \in 1..Len(rows) |-> rows[i][c]]]

DefaultFrame(n) == FrameOf([i \in 1..n |-> DefaultRow(i)])

\* row 1 replaced by r, the other rows as DefaultRow
WithFirstRow(n, r) ==
    FrameOf([i \in 1..n |-> IF i = 1
                            THEN [c \in Columns |-> IF c \in DOMAIN r THEN r[c]
                                                    ELSE DefaultRow(1)[c]]
                            ELSE DefaultRow(i)])

\* a table whose column c holds col, the other columns as DefaultRow
WithColumn(n, c, col) == SetCol(DefaultFrame(n), c, col)

\* the rows that replace row 1: any status, ratings, margin and reason
StatusRows ==
    [Order_Status : Statuses, Restaurant_Rating : Ratings,
     Delivery_Rating : {NaN, 4}, Profit_Margin : Margins,
     Order_Value : {0, 2 * Unit}, Cancellation_Reason : Reasons]

\* the rows that replace row 1: any city, time, date and age
FeatureRows ==
    [City : Cities, Order_Time : Times, Order_Date : Dates, Customer_Age : Ages]

\* the raw tables: up to MaxRows rows; either Order_Value or
\* Delivery_Time_Min varies in every row, or row 1 varies in its other fields
IsRawTable(t) ==
    \E n \in 1..MaxRows :
        \/ \E col \in [1..n -> Amounts] : t = WithColumn(n, "Order_Value", col)
        \/ \E col \in [1..n -> Amounts] : t = WithColumn(n, "Delivery_Time_Min", col)
        \/ \E r \in StatusRows : t = WithFirstRow(n, r)
        \/ \E r \in FeatureRows : t = WithFirstRow(n, r)

\* tables of up to MaxReport rows whose first k order values, first j
\* delivery times and first h ratings are missing
IsSparseTable(t) ==
    \E n \in 1..MaxReport : \E k, j \in 0..n : \E h \in {0, n} :
        t = SetCol(SetCol(SetCol(DefaultFrame(n),
                "Order_Value", [i \in 1..n |-> IF i <= k THEN NaN ELSE 2 * Unit]),
                "Delivery_Time_Min", [i \in 1..n |-> IF i <= j THEN NaN ELSE 30]),
                "Restaurant_Rating", [i \in 1..n |-> IF i <= h THEN NaN ELSE 4])

NoFrame == [c \in {} |-> <<>>]

\* a csv file that does not exist
NoFile == [missing |-> TRUE]

\* nothing of the dashboard has run
DashIdle ==
    /\ cleaned_csv = NoFile
    /\ msgs = {}
    /\ sel = NoFrame
    /\ filtered_df = NoFrame
    /\ metrics = NoFrame
    /\ restaurant_cancellation = <<>>
    /\ cache = <<>>
    /\ shared = FALSE

----------------------------------------------------------------------------
(* src/Food_analysis.py as a state machine                                 *)

Init ==
    /\ pc = "start"
    /\ copy_on_write \in BOOLEAN
    /\ IsRawTable(raw) \/ IsSparseTable(raw)
    /\ df = NoFrame
    /\ fn = "none" /\ arg = 0 /\ res = 0
    /\ rfm_df = NoFrame
    /\ missing_data = <<>>
    /\ DashIdle

\* line 31
ReadCsv ==
    /\ pc = "start"
    /\ df' = raw
    /\ pc' = "loaded"
    /\ UNCHANGED <<copy_on_write, raw, fn, arg, res, rfm_df, missing_data, dashVars>>

\* lines 51-60
StepMissingReport ==
    /\ pc = "loaded"
    /\ missing_data' \in MissingReport(df)
    /\ pc' = "reported"
    /\ UNCHANGED <<copy_on_write, raw, df, fn, arg, res, rfm_df, dashVars>>

\* lines 66-69
StepFillMissing ==
    /\ pc = "reported"
    /\ df' = FillMissing(df, copy_on_write)
    /\ pc' = "filled"
    /\ UNCHANGED <<copy_on_write, raw, fn, arg, res, rfm_df, missing_data, dashVars>>

\* lines 89-90
StepCapOutliers ==
    /\ pc = "filled"
    /\ df' = CapColumns(df)
    /\ pc' = "capped"
    /\ UNCHANGED <<copy_on_write, raw, fn, arg, res, rfm_df, missing_data, dashVars>>

\* lines 94-100
StepClipInvalid ==
    /\ pc = "capped"
    /\ df' = ClipInvalid(df)
    /\ pc' = "clipped"
    /\ UNCHANGED <<copy_on_write, raw, fn, arg, res, rfm_df, missing_data, dashVars>>

\* lines 103-104
StepStandardize ==
    /\ pc = "clipped"
    /\ df' = Standardize(df)
    /\ pc' = "standardized"
    /\ UNCHANGED <<copy_on_write, raw, fn, arg, res, rfm_df, missing_data, dashVars>>

\* lines 111-119
StepConsistency ==
    /\ pc = "standardized"
    /\ df' = ConvertTypes(LogicalConsistency(df))
    /\ pc' = "cleaned"
    /\ UNCHANGED <<copy_on_write, raw, fn, arg, res, rfm_df, missing_data, dashVars>>

\* lines 154-202
StepFeatures ==
    /\ pc = "cleaned"
    /\ df' = FeatureEngineering(df)
    /\ pc' = "featured"
    /\ UNCHANGED <<copy_on_write, raw, fn, arg, res, rfm_df, missing_data, dashVars>>

Next ==
    \/ ReadCsv
    \/ StepMissingReport
    \/ StepFillMissing
    \/ StepCapOutliers
    \/ StepClipInvalid
    \/ StepStandardize
    \/ StepConsistency
    \/ StepFeatures

Spec == Init /\ [][Next]_vars

----------------------------------------------------------------------------
(* src/food_analysis.py: RFM scoring, lines 768-798                        *)

Digits == <<"0","1","2","3","4","5","6","7","8","9">>

\* str(d) of a one-digit score, int(c) of a one-character string
str_of(d) == Digits[d + 1]
int_of(c) == (CHOOSE k \in 1..10 : Digits[k] = c) - 1

\* rank(method='min') in place of method='first': equal values share a rank
rank_min(x) ==
    [i \in 1..Len(x) |-> 1 + Cardinality({j \in 1..Len(x) : x[j] < x[i]})]

\* Series.rank(method='first'): 1 + the number of rows that sort before row
\* i, rows with equal values ranking in order of appearance
rank_first(x) ==
    [i \in 1..Len(x) |->
        1 + Cardinality({j \in 1..Len(x) : x[j] < x[i] \/ (x[j] = x[i] /\ j < i)})]

\* interpolation 'higher' in place of 'linear'
quartile4_higher(s, k) ==
    LET pos == (Len(s) - 1) * k
        lo == pos \div 4 + 1
        r == pos % 4
    IN  IF r = 0 THEN 4 * s[lo] ELSE 4 * s[lo + 1]

\* four times the k-th quartile (linear interpolation), k = 0..4, of a
\* column whose values in ascending order are s
quartile4(s, k) ==
    LET pos == (Len(s) - 1) * k
        lo == pos \div 4 + 1
        r == pos % 4
    IN  IF r = 0 THEN 4 * s[lo] ELSE 4 * s[lo] + (s[lo + 1] - s[lo]) * r

\* the bin edges of pd.qcut(x, 4, duplicates='drop'), times four: the five
\* quartiles with repeated edges dropped (none for an empty column)
qcut_bins(x) ==
    IF Len(x) = 0 THEN <<>>
    ELSE LET s == SortAsc(x)
         IN  AscOf({quartile4(s, k) : k \in 0..4})

\* pd.qcut raises ValueError when the labels are not one fewer than the
\* edges that are left
qcut_raises(x, labels) == Len(labels) # Len(qcut_bins(x)) - 1

\* pd.qcut(x, 4, labels=labels, duplicates='drop'): intervals are open on
\* the left and closed on the right, the first one includes its left edge
qcut(x, labels) ==
    LET bins == qcut_bins(x)
    IN  [i \in 1..Len(x) |->
            IF 4 * x[i] = bins[1] THEN labels[1]
            ELSE labels[Cardinality({j \in 1..Len(bins) : bins[j] < 4 * x[i]})]]

\* 'Champions' decided without the monetary score
segment_customer_no_monetary(score) ==
    LET r == int_of(score[1])
        f == int_of(score[2])
    IN  IF r >= 3 /\ f >= 3 THEN "Champions"
        ELSE IF r >= 3 /\ f >= 2 THEN "Loyal Customers"
        ELSE IF r >= 3 THEN "Potential Loyalists"
        ELSE IF f >= 3 THEN "At Risk"
        ELSE "Lost"

\* the second rule tested before the first
segment_customer_reordered(score) ==
    LET r == int_of(score[1])
        f == int_of(score[2])
        m == int_of(score[3])
    IN  IF r >= 3 /\ f >= 2 THEN "Loyal Customers"
        ELSE IF r >= 3 /\ f >= 3 /\ m >= 3 THEN "Champions"
        ELSE IF r >= 3 THEN "Potential Loyalists"
        ELSE IF f >= 3 THEN "At Risk"
        ELSE "Lost"

\* lines 785-796
segment_customer(score) ==
    LET r == int_of(score[1])
        f == int_of(score[2])
        m == int_of(score[3])
    IN  IF r >= 3 /\ f >= 3 /\ m >= 3 THEN "Champions"
        ELSE IF r >= 3 /\ f >= 2 THEN "Loyal Customers"
        ELSE IF r >= 3 THEN "Potential Loyalists"
        ELSE IF f >= 3 THEN "At Risk"
        ELSE "Lost"

NCust(t) == Len(t["Customer_ID"])

\* the recency labels in the same order as the other two
RfmScores_ascending(t) ==
    LET t1 == SetCol(t, "R_Score", qcut(t["Recency"], <<1, 2, 3, 4>>))
        t2 == SetCol(t1, "F_Score", qcut(rank_first(t["Frequency"]), <<1, 2, 3, 4>>))
    IN  SetCol(t2, "M_Score", qcut(t["Monetary"], <<1, 2, 3, 4>>))

\* lines 778-780
RfmScores(t) ==
    LET t1 == SetCol(t, "R_Score", qcut(t["Recency"], <<4, 3, 2, 1>>))
        t2 == SetCol(t1, "F_Score", qcut(rank_first(t["Frequency"]), <<1, 2, 3, 4>>))
    IN  SetCol(t2, "M_Score", qcut(t["Monetary"], <<1, 2, 3, 4>>))

RfmScoresRaise(t) ==
    \/ qcut_raises(t["Recency"], <<4, 3, 2, 1>>)
    \/ qcut_raises(rank_first(t["Frequency"]), <<1, 2, 3, 4>>)
    \/ qcut_raises(t["Monetary"], <<1, 2, 3, 4>>)

\* lines 778-780 when one of them raises: the frame with the score columns
\* assigned before the statement that raises
RfmScoresRaised(t) ==
    IF qcut_raises(t["Recency"], <<4, 3, 2, 1>>) THEN t
    ELSE LET t1 == SetCol(t, "R_Score", qcut(t["Recency"], <<4, 3, 2, 1>>))
         IN  IF qcut_raises(rank_first(t["Frequency"]), <<1, 2, 3, 4>>) THEN t1
             ELSE SetCol(t1, "F_Score", qcut(rank_first(t["Frequency"]), <<1, 2, 3, 4>>))

\* line 782
RfmCode(t) ==
    SetCol(t, "RFM_Score",
           [i \in 1..NCust(t) |-> <<str_of(t["R_Score"][i]), str_of(t["F_Score"][i]),
                                    str_of(t["M_Score"][i])>>])

\* line 798
RfmSegment(t) ==
    SetCol(t, "Segment", [i \in 1..NCust(t) |-> segment_customer(t["RFM_Score"][i])])

----------------------------------------------------------------------------
(* Customer populations: rfm_df after the group-by of lines 770-775        *)

SmallPop == 4
SmallValue == 3
GroupSize == 2
Spare == 1
MaxTied == 9

\* customer i of n: the later the customer, the more recent, the more
\* frequent and the higher the spend
DefaultPop(n) ==
    [Customer_ID |-> [i \in 1..n |-> i],
     Recency |-> [i \in 1..n |-> 10 * (n + 1 - i)],
     Frequency |-> [i \in 1..n |-> i],
     Monetary |-> [i \in 1..n |-> 100 * i]]

Metrics == {"Recency", "Frequency", "Monetary"}

\* a population whose metric holds col (counted from the metric's floor)
WithMetric(n, metric, col) ==
    LET \* order counts start at 1, recency and spend at 0
        Floor == IF metric = "Frequency" THEN 1 ELSE 0
    IN  SetCol(DefaultPop(n), metric, [i \in 1..n |-> Floor + col[i]])

\* the strictly increasing sequences of length n over lo..hi
RECURSIVE Increasing(_, _, _)
Increasing(n, lo, hi) ==
    IF n = 0 THEN {<<>>}
    ELSE UNION {{<<a>> \o t : t \in Increasing(n - 1, a + 1, hi)} : a \in lo..hi}

\* the rotations of 1..n, read forwards and backwards
Arrangements(n) ==
    {[i \in 1..n |-> ((i + k) % n) + 1] : k \in 0..(n - 1)} \cup
    {[i \in 1..n |-> ((n - i + k) % n) + 1] : k \in 0..(n - 1)}

\* the populations: up to SmallPop customers with one metric taking any
\* values, or 4, 8, .. customers with one metric taking pairwise distinct
\* values, or up to MaxTied customers with one metric taking two values
IsPopulation(t) ==
    \E metric \in Metrics :
        \/ \E n \in 1..SmallPop : \E col \in [1..n -> 0..SmallValue] :
              t = WithMetric(n, metric, col)
        \/ \E g \in 1..GroupSize :
              \E inc \in Increasing(4 * g, 0, 4 * g - 1 + Spare) :
                  \E perm \in Arrangements(4 * g) :
                      t = WithMetric(4 * g, metric, [i \in 1..(4 * g) |-> inc[perm[i]]])
        \/ \E n \in 1..MaxTied : \E j \in 0..n : \E a, b \in 0..1 :
              t = WithMetric(n, metric, [i \in 1..n |-> IF i <= j THEN a ELSE b])

----------------------------------------------------------------------------
(* src/food_analysis.py, lines 768-798, as a state machine                 *)

InitRFM ==
    /\ pc = "rfm"
    /\ copy_on_write \in BOOLEAN
    /\ raw = NoFrame
    /\ df = NoFrame
    /\ fn = "none" /\ arg = 0 /\ res = 0
    /\ IsPopulation(rfm_df)
    /\ missing_data = <<>>
    /\ DashIdle

\* lines 778-780, no qcut raising
StepRfmScores ==
    /\ pc = "rfm"
    /\ ~RfmScoresRaise(rfm_df)
    /\ rfm_df' = RfmScores(rfm_df)
    /\ pc' = "scored"
    /\ UNCHANGED <<copy_on_write, raw, df, fn, arg, res, missing_data, dashVars>>

\* lines 778-780, a qcut raises ValueError and the render stops; the
\* scores assigned by the lines before it stay in rfm_df
StepRfmScoresError ==
    /\ pc = "rfm"
    /\ RfmScoresRaise(rfm_df)
    /\ rfm_df' = RfmScoresRaised(rfm_df)
    /\ pc' = "error"
    /\ UNCHANGED <<copy_on_write, raw, df, fn, arg, res, missing_data, dashVars>>

\* line 782
StepRfmCode ==
    /\ pc = "scored"
    /\ rfm_df' = RfmCode(rfm_df)
    /\ pc' = "coded"
    /\ UNCHANGED <<copy_on_write, raw, df, fn, arg, res, missing_data, dashVars>>

\* line 798
StepRfmSegment ==
    /\ pc = "coded"
    /\ rfm_df' = RfmSegment(rfm_df)
    /\ pc' = "segmented"
    /\ UNCHANGED <<copy_on_write, raw, df, fn, arg, res, missing_data, dashVars>>

NextRFM ==
    \/ StepRfmScores
    \/ StepRfmScoresError
    \/ StepRfmCode
    \/ StepRfmSegment

SpecRFM == InitRFM /\ [][NextRFM]_vars

----------------------------------------------------------------------------
(* src/food_analysis.py: the dashboard, one render of the script           *)

MaxRestaurants == 12

\* the characters of the strings below in code-point order
CharOrder == <<" ">> \o Digits \o UpperAlpha \o LowerAlpha
Ord(c) == CHOOSE i \in 1..Len(CharOrder) : CharOrder[i] = c

\* a < b for two Python strings
str_lt(a, b) ==
    \E k \in 1..(Len(a) + 1) :
        /\ \A j \in 1..(k - 1) : j <= Len(b) /\ a[j] = b[j]
        /\ k <= Len(b)
        /\ (k <= Len(a) => Ord(a[k]) < Ord(b[k]))

\* sorted(S) for a set of strings
SortedStrings(S) ==
    [k \in 1..Cardinality(S) |->
        CHOOSE a \in S : Cardinality({b \in S : str_lt(b, a)}) = k - 1]

\* df[mask]: the rows whose number is in keep, in row order
Rows(t, keep) ==
    LET idx == AscOf(keep)
    IN  [c \in DOMAIN t |-> [k \in 1..Len(idx) |-> t[c][idx[k]]]]

\* s[lo] + .. + s[hi], added by halves
RECURSIVE SumRange(_, _, _)
SumRange(s, lo, hi) ==
    IF lo > hi THEN 0
    ELSE IF lo = hi THEN s[lo]
    ELSE SumRange(s, lo, (lo + hi) \div 2) + SumRange(s, (lo + hi) \div 2 + 1, hi)

\* Series.sum(): missing values are skipped
sum(col) == SumRange(Present(col), 1, Len(Present(col)))

\* a float that is the quotient of two integers; 0 / 0 is NaN
Ratio(a, b) == [num |-> a, den |-> b]
NaNRatio == Ratio(0, 0)

\* Series.mean(): missing values are skipped, NaN for an empty column
mean(col) == Ratio(sum(col), Len(Present(col)))

\* Series.dropna().unique() of a text column
unique(col) == {col[i] : i \in 1..Len(col)} \ {StrNaN}

All == <<"A","l","l">>

\* the status the dashboard compares Order_Status with (lines 232, 660)
CancelledLabel == <<"C","a","n","c","e","l","l","e","d">>

\* line 252 of src/Food_analysis.py: DataFrame.to_csv writes the index as
\* a first column without a name
to_csv(t) == SetCol(t, "Unnamed: 0", [i \in 1..NRows(t) |-> i - 1])

\* pd.to_datetime(col, errors='coerce'): what is not a date becomes NaT
to_datetime(col) == [i \in 1..Len(col) |-> IF IsNum(col[i]) THEN col[i] ELSE NaN]

\* the frame that read_csv returns with its Order_Date converted
ConvertDate(t) ==
    IF "Order_Date" \in DOMAIN t
    THEN SetCol(t, "Order_Date", to_datetime(t["Order_Date"]))
    ELSE t

\* the raw file tried before the cleaned one
load_data_raw_first(cleaned, rawfile) ==
    IF rawfile # NoFile
    THEN [df |-> ConvertDate(rawfile), msgs |-> {"warning"}, none |-> FALSE]
    ELSE IF cleaned # NoFile
    THEN [df |-> ConvertDate(cleaned), msgs |-> {}, none |-> FALSE]
    ELSE [df |-> NoFrame, msgs |-> {"error"}, none |-> TRUE]

\* lines 83-101: the cleaned file, else the raw file with a warning, else
\* an error and None
load_data(cleaned, rawfile) ==
    IF cleaned # NoFile
    THEN [df |-> ConvertDate(cleaned), msgs |-> {}, none |-> FALSE]
    ELSE IF rawfile # NoFile
    THEN [df |-> ConvertDate(rawfile), msgs |-> {"warning"}, none |-> FALSE]
    ELSE [df |-> NoFrame, msgs |-> {"error"}, none |-> TRUE]

Least(S) == CHOOSE a \in S : \A b \in S : a <= b
Greatest(S) == CHOOSE a \in S : \A b \in S : a >= b

\* what st.date_input can return between lo and hi: the whole range, a
\* single day at or next to lo, or one date while the user is picking
DateRanges(lo, hi) ==
    {<<lo, hi>>, <<lo>>} \cup {<<d, d>> : d \in lo..Least({lo + 1, hi})}

\* the selections tried in a widget: every option when the loaded table
\* has up to MaxRows rows, the default alone when it is longer
Tried(t, options, default) == IF NRows(t) > MaxRows THEN {default} ELSE options

\* lines 147-149
DateMask(t, date_range) ==
    {i \in 1..NRows(t) : /\ t["Order_Date"][i] # NaN
                         /\ t["Order_Date"][i] >= date_range[1]
                         /\ t["Order_Date"][i] <= date_range[2]}

\* the frame kept without .copy() when no range is applied
DateFilter_no_copy(t, date_range) ==
    IF Len(date_range) = 2
    THEN [frame |-> Rows(t, DateMask(t, date_range)), shared |-> FALSE]
    ELSE [frame |-> t, shared |-> TRUE]

\* lines 146-153: df[mask].copy() for a range of two dates, df.copy()
\* otherwise (date_range is empty when there is no date input); either way
\* a new object
DateFilter(t, date_range) ==
    IF Len(date_range) = 2
    THEN [frame |-> Rows(t, DateMask(t, date_range)), shared |-> FALSE]
    ELSE [frame |-> t, shared |-> FALSE]

\* line 277: dt.to_period('M').astype(str), 'YYYY-MM' or 'NaT'; the calendar
\* year y and month m of day d (days since 1970-01-01) by the civil
\* calendar's 400-year cycle
YearMonth(d) ==
    IF d = NaN THEN <<"N","a","T">>
    ELSE LET z == d + 719468
             era == z \div 146097
             doe == z - era * 146097
             yoe == (doe - (doe \div 1460) + (doe \div 36524) - (doe \div 146096)) \div 365
             doy == doe - (365 * yoe + (yoe \div 4) - (yoe \div 100))
             mp == (5 * doy + 2) \div 153
             y == yoe + era * 400 + (IF mp < 10 THEN 0 ELSE 1)
             m == IF mp < 10 THEN mp + 3 ELSE mp - 9
         IN  <<str_of(y \div 1000), str_of((y \div 100) % 10), str_of((y \div 10) % 10),
               str_of(y % 10), "-", str_of(m \div 10), str_of(m % 10)>>

\* lines 161, 169: the rows whose column c equals v
RowsEqual(t, c, v) == Rows(t, {i \in 1..NRows(t) : t[c][i] = v})

\* len(t[t['Order_Status'] == status])
CountStatus(t, status) ==
    Cardinality({i \in 1..NRows(t) : t["Order_Status"][i] = status})

PreviousOrders == 95000

\* the cancellation rate computed without the test total_orders > 0
KeyMetrics_unguarded(whole, t) ==
    LET total_orders == NRows(t)
        cancelled == CountStatus(t, CancelledLabel)
    IN  [current_orders |-> NRows(whole),
         delta_orders |-> NRows(whole) - PreviousOrders,
         total_orders |-> total_orders,
         total_revenue |-> sum(t["Final_Amount"]),
         avg_order_value |-> mean(t["Order_Value"]),
         cancelled |-> cancelled,
         cancellation_rate |-> Ratio(cancelled * 100, total_orders),
         avg_delivery_time |-> mean(t["Delivery_Time_Min"]),
         avg_delivery_rating |-> mean(t["Delivery_Rating"]),
         avg_profit_margin |-> mean(t["Profit_Margin"])]

\* lines 202-249; every frame read here has the columns these lines test
KeyMetrics(whole, t) ==
    LET total_orders == NRows(t)
        cancelled == CountStatus(t, CancelledLabel)
    IN  [current_orders |-> NRows(whole),
         delta_orders |-> NRows(whole) - PreviousOrders,
         total_orders |-> total_orders,
         total_revenue |-> sum(t["Final_Amount"]),
         avg_order_value |-> mean(t["Order_Value"]),
         cancelled |-> cancelled,
         cancellation_rate |-> IF total_orders > 0
                               THEN Ratio(cancelled * 100, total_orders)
                               ELSE Ratio(0, 1),
         avg_delivery_time |-> mean(t["Delivery_Time_Min"]),
         avg_delivery_rating |-> mean(t["Delivery_Rating"]),
         avg_profit_margin |-> mean(t["Profit_Margin"])]

\* the number of rows whose delivery time is in lo..hi
CountDelivery(t, lo, hi) ==
    Cardinality({i \in 1..NRows(t) : /\ t["Delivery_Time_Min"][i] # NaN
                                     /\ t["Delivery_Time_Min"][i] >= lo
                                     /\ t["Delivery_Time_Min"][i] <= hi})

\* lines 567-588 raise: a division by len(filtered_df) = 0 (line 571), or
\* int(round(nan)) when no row has a Delivery_Rating (line 588)
DeliveryMetricsRaise(t) ==
    \/ NRows(t) = 0
    \/ mean(t["Delivery_Rating"]) = NaNRatio

\* lines 567-588; delivery times are whole minutes
DeliveryMetrics(t) ==
    LET fast_deliveries == CountDelivery(t, NegInf, 29)
        normal_deliveries == CountDelivery(t, 30, 60)
        slow_deliveries == CountDelivery(t, 61, Inf)
    IN  [fast_deliveries |-> fast_deliveries,
         fast_pct |-> Ratio(fast_deliveries * 100, NRows(t)),
         normal_deliveries |-> normal_deliveries,
         normal_pct |-> Ratio(normal_deliveries * 100, NRows(t)),
         slow_deliveries |-> slow_deliveries,
         slow_pct |-> Ratio(slow_deliveries * 100, NRows(t)),
         avg_rating |-> mean(t["Delivery_Rating"])]

MinOrders == 10
TopRestaurants == 10

\* a > b for two quotients with positive denominators
RatioGreater(a, b) == a.num * b.den > b.num * a.den

\* the keys that sort rows by Cancellation Rate descending: the number of
\* rows with a greater rate
RateKeys(rows) ==
    [k \in 1..Len(rows) |->
        Cardinality({j \in 1..Len(rows) :
            RatioGreater(rows[j].Cancellation_Rate, rows[k].Cancellation_Rate)})]

\* lines 658-665: one row per restaurant in name order
RestaurantGroups(t) ==
    LET names == SortedStrings(unique(t["Restaurant_Name"]))
        group(k) == {i \in 1..NRows(t) : t["Restaurant_Name"][i] = names[k]}
        total(k) == Cardinality({i \in group(k) : t["Order_ID"][i] # NaN})
        cancelled(k) == Cardinality({i \in group(k) :
                                        t["Order_Status"][i] = CancelledLabel})
    IN  [k \in 1..Len(names) |->
            [Restaurant |-> names[k],
             Total_Orders |-> total(k),
             Cancelled |-> cancelled(k),
             Cancellation_Rate |-> Ratio(cancelled(k) * 100, total(k))]]

\* the view without the Total Orders >= 10 filter
RestaurantCancellation_unfiltered(t) ==
    {SubSeq(sorted, 1, Least({TopRestaurants, Len(sorted)})) :
        sorted \in sort_values(RestaurantGroups(t), RateKeys(RestaurantGroups(t)))}

\* lines 658-667: the views the sort can give, one for each order of the
\* restaurants with equal rates
RestaurantCancellation(t) ==
    LET kept == SelectSeq(RestaurantGroups(t), LAMBDA r : r.Total_Orders >= MinOrders)
    IN  {SubSeq(sorted, 1, Least({TopRestaurants, Len(sorted)})) :
            sorted \in sort_values(kept, RateKeys(kept))}

\* lines 770-775: one row per customer in Customer_ID order; every
\* customer of the frames read here has a dated order
RfmAggregate(t, now) ==
    LET ids == AscOf({t["Customer_ID"][i] : i \in 1..NRows(t)})
        group(k) == {i \in 1..NRows(t) : t["Customer_ID"][i] = ids[k]}
    IN  [Customer_ID |-> ids,
         Recency |-> [k \in 1..Len(ids) |->
                        now - Greatest({t["Order_Date"][i] : i \in group(k)} \ {NaN})],
         Frequency |-> [k \in 1..Len(ids) |->
                        Cardinality({i \in group(k) : t["Order_ID"][i] # NaN})],
         Monetary |-> [k \in 1..Len(ids) |->
                        sum([j \in 1..Len(AscOf(group(k))) |->
                                t["Final_Amount"][AscOf(group(k))[j]]])]]

----------------------------------------------------------------------------
(* The files the dashboard reads                                           *)

DashColumns == {ColumnOrder[k] : k \in 1..Len(ColumnOrder)}

Pune == <<"P","u","n","e">>
Delhi == <<"D","e","l","h","i">>
Thai == <<"T","h","a","i">>
Pizza == <<"P","i","z","z","a">>

\* the name of restaurant r, r < 100
RestaurantName(r) == <<"R", str_of(r \div 10), str_of(r % 10)>>

DashFrameOf(rows) == [c \in DashColumns |-> [i \in 1..Len(rows) |-> rows[i][c]]]

\* order i: its own customer, every second day, cities and cuisines
\* alternating, the first order cancelled and without a delivery rating
SmallRow(i) ==
    [c \in DashColumns |->
        CASE c = "Customer_ID" -> i
          [] c = "Restaurant_Name" -> RestaurantName(1)
          [] c = "Cuisine_Type" -> IF i % 2 = 1 THEN Thai ELSE Pizza
          [] c = "City" -> IF i <= 2 THEN Pune ELSE Delhi
          [] c = "Order_Date" -> 20454 + 2 * (i - 1)
          [] c = "Final_Amount" -> i * Unit
          [] c = "Order_Status" -> IF i = 1 THEN CancelledLabel ELSE Delivered
          [] c = "Delivery_Rating" -> IF i = 1 THEN NaN ELSE DefaultRow(i)[c]
          [] OTHER -> DefaultRow(i)[c]]

\* order i of a table where restaurant 1 has c1 cancelled orders and
\* restaurant r > 1 has r \div 2, so that restaurants 2 and 3, 4 and 5, ...
\* have equal rates
RestaurantRow(i, t1, c1) ==
    LET \* the restaurant of order i when restaurant 1 has t1 orders and the
        \* others MinOrders each, and the position of the order among them
        r == IF i <= t1 THEN 1 ELSE 2 + (i - t1 - 1) \div MinOrders
        OrderOf == IF i <= t1 THEN i ELSE 1 + ((i - t1 - 1) % MinOrders)
        cancelled == IF r = 1 THEN c1 ELSE r \div 2
    IN  [c \in DashColumns |->
            CASE c = "Customer_ID" -> r
              [] c = "Restaurant_Name" -> RestaurantName(r)
              [] c = "Cuisine_Type" -> Thai
              [] c = "Final_Amount" -> 2 * Unit
              [] c = "Order_Status" -> IF OrderOf <= cancelled
                                       THEN CancelledLabel ELSE Delivered
              [] OTHER -> DefaultRow(i)[c]]

\* up to MaxRows orders of distinct customers
SmallTable(n) == DashFrameOf([i \in 1..n |-> SmallRow(i)])

\* the same with the last order a second order of customer 1 whose date
\* does not parse
UndatedTable(n) ==
    DashFrameOf([i \in 1..n |->
        IF i < n THEN SmallRow(i)
        ELSE [c \in DashColumns |->
                 CASE c = "Order_ID" -> n
                   [] c = "Order_Date" -> NaN
                   [] OTHER -> SmallRow(1)[c]]])

\* R restaurants with MinOrders orders each but the first, which has t1
RestaurantTable(R, t1, c1) ==
    DashFrameOf([i \in 1..(t1 + MinOrders * (R - 1)) |-> RestaurantRow(i, t1, c1)])

\* a file such as the cleaning script writes for a raw table (line 252 of
\* src/Food_analysis.py, which names it cleaned_food_delivery_dataset.csv)
CleanedFile(t, cow) == to_csv(FeatureEngineering(CleanTable(t, cow)))

\* the tables of R restaurants and of up to MaxRows orders that the files
\* are drawn from
TablesOf(R) ==
    {SmallTable(n) : n \in 1..MaxRows} \cup {UndatedTable(n) : n \in 2..MaxRows}
    \cup UNION {{RestaurantTable(R, t1, 0), RestaurantTable(R, t1, t1)} :
                    t1 \in {MinOrders - 1, MinOrders}}

\* the days on which the dashboard is opened
Nows == {20461, 20500}

----------------------------------------------------------------------------
(* One render of src/food_analysis.py as a state machine                   *)

\* each of the two files the dashboard reads is there or not, the one
\* independently of the other. No line of the repository writes
\* cleaned_food_delivery_data.csv (line 87): it is there when someone has put
\* it there, here with the contents of a cleaned table u (of two
\* restaurants at most: on a cleaned table every rate is 0, and the view of
\* R restaurants with equal rates has R! orders); the raw upload (line 91)
\* holds the table t
HasFiles(t, u) ==
    \E rawThere, cleanedThere \in BOOLEAN :
        /\ raw = IF rawThere THEN t ELSE NoFile
        /\ cleaned_csv = IF cleanedThere THEN CleanedFile(u, copy_on_write) ELSE NoFile

InitDash ==
    /\ pc = "dash"
    /\ copy_on_write \in BOOLEAN
    /\ \E t \in TablesOf(2) \cup TablesOf(MaxRestaurants) : \E u \in TablesOf(2) :
          /\ u = t \/ u = SmallTable(1) \/ t = SmallTable(1)
          /\ HasFiles(t, u)
    /\ df = NoFrame
    /\ fn = "none" /\ arg = 0 /\ res = 0
    /\ rfm_df = NoFrame
    /\ missing_data = <<>>
    /\ msgs = {}
    /\ sel = NoFrame
    /\ filtered_df = NoFrame
    /\ metrics = NoFrame
    /\ restaurant_cancellation = <<>>
    /\ cache = <<>>
    /\ shared = FALSE

\* lines 82-83, 122-125: load_data through st.cache_data, which runs it
\* once and afterwards hands out a copy of what it returned and shows its
\* messages again; st.stop() when the result is None
DashLoad ==
    /\ pc = "dash"
    /\ LET r == IF cache = <<>> THEN load_data(cleaned_csv, raw) ELSE cache[1]
       IN  /\ cache' = <<r>>
           /\ df' = r.df
           /\ msgs' = msgs \cup r.msgs
           /\ pc' = IF r.none THEN "stopped" ELSE "dash_loaded"
    /\ UNCHANGED <<copy_on_write, raw, cleaned_csv, fn, arg, res, rfm_df, missing_data, sel,
                   filtered_df, metrics, restaurant_cancellation, shared>>

\* lines 137-153: the date range filter
DashDateFilter ==
    /\ pc = "dash_loaded"
    /\ IF "Order_Date" \in DOMAIN df /\ Present(df["Order_Date"]) # <<>>
       THEN LET dates == {df["Order_Date"][i] : i \in 1..NRows(df)} \ {NaN}
            IN  \E date_range \in Tried(df, DateRanges(Least(dates), Greatest(dates)),
                                         <<Least(dates), Greatest(dates)>>) :
                    /\ sel' = [date_range |-> date_range]
                    /\ filtered_df' = DateFilter(df, date_range).frame
                    /\ shared' = DateFilter(df, date_range).shared
       ELSE /\ sel' = [date_range |-> <<>>]
            /\ filtered_df' = DateFilter(df, <<>>).frame
            /\ shared' = DateFilter(df, <<>>).shared
    /\ pc' = "dash_dated"
    /\ UNCHANGED <<copy_on_write, raw, cleaned_csv, cache, df, fn, arg, res, rfm_df, missing_data, msgs,
                   metrics, restaurant_cancellation>>

\* lines 156-161: the city filter
DashCityFilter ==
    /\ pc = "dash_dated"
    /\ \E selected_city \in Tried(df, {All} \cup unique(filtered_df["City"]), All) :
          /\ sel' = [c \in DOMAIN sel \cup {"city"} |->
                        IF c = "city" THEN selected_city ELSE sel[c]]
          /\ filtered_df' = IF selected_city # All
                            THEN RowsEqual(filtered_df, "City", selected_city)
                            ELSE filtered_df
          /\ shared' = (shared /\ selected_city = All)
    /\ pc' = "dash_city"
    /\ UNCHANGED <<copy_on_write, raw, cleaned_csv, cache, df, fn, arg, res, rfm_df, missing_data, msgs,
                   metrics, restaurant_cancellation>>

\* lines 164-169: the order status filter
DashStatusFilter ==
    /\ pc = "dash_city"
    /\ \E selected_status \in {All} \cup unique(filtered_df["Order_Status"]) :
          /\ sel' = [c \in DOMAIN sel \cup {"status"} |->
                        IF c = "status" THEN selected_status ELSE sel[c]]
          /\ filtered_df' = IF selected_status # All
                            THEN RowsEqual(filtered_df, "Order_Status", selected_status)
                            ELSE filtered_df
          /\ shared' = (shared /\ selected_status = All)
    /\ pc' = "dash_status"
    /\ UNCHANGED <<copy_on_write, raw, cleaned_csv, cache, df, fn, arg, res, rfm_df, missing_data, msgs,
                   metrics, restaurant_cancellation>>

\* lines 172-184: the cuisine multi-select: 'All' alone, nothing, or one
\* cuisine
DashCuisineFilter ==
    /\ pc = "dash_status"
    /\ \E selected_cuisine \in
             Tried(df, {{All}, {}} \cup {{c} : c \in unique(filtered_df["Cuisine_Type"])},
                   {All}) :
          /\ sel' = [c \in DOMAIN sel \cup {"cuisine"} |->
                        IF c = "cuisine" THEN selected_cuisine ELSE sel[c]]
          /\ filtered_df' = IF All \notin selected_cuisine
                            THEN Rows(filtered_df,
                                      {i \in 1..NRows(filtered_df) :
                                          filtered_df["Cuisine_Type"][i] \in selected_cuisine})
                            ELSE filtered_df
          /\ shared' = (shared /\ All \in selected_cuisine)
    /\ pc' = "dash_filtered"
    /\ UNCHANGED <<copy_on_write, raw, cleaned_csv, cache, df, fn, arg, res, rfm_df, missing_data, msgs,
                   metrics, restaurant_cancellation>>

\* lines 202-249: the headline metrics
DashKeyMetrics ==
    /\ pc = "dash_filtered"
    /\ metrics' = KeyMetrics(df, filtered_df)
    /\ pc' = "dash_metrics"
    /\ UNCHANGED <<copy_on_write, raw, cleaned_csv, cache, shared, df, fn, arg, res, rfm_df, missing_data, msgs,
                   sel, filtered_df, restaurant_cancellation>>

\* lines 275-278: the YearMonth column is assigned to the object
\* filtered_df, which is df itself when the two are shared
DashYearMonth ==
    /\ pc = "dash_metrics"
    /\ IF "Order_Date" \in DOMAIN filtered_df /\ "Final_Amount" \in DOMAIN filtered_df
       THEN LET col == [i \in 1..NRows(filtered_df) |->
                           YearMonth(filtered_df["Order_Date"][i])]
            IN  /\ filtered_df' = SetCol(filtered_df, "YearMonth", col)
                /\ df' = IF shared THEN SetCol(df, "YearMonth", col) ELSE df
       ELSE UNCHANGED <<filtered_df, df>>
    /\ pc' = "dash_months"
    /\ UNCHANGED <<copy_on_write, raw, cleaned_csv, cache, shared, fn, arg, res, rfm_df, missing_data,
                   msgs, sel, metrics, restaurant_cancellation>>

\* lines 567-588: the delivery performance metrics
DashDeliveryMetrics ==
    /\ pc = "dash_months"
    /\ ~DeliveryMetricsRaise(filtered_df)
    /\ metrics' = [c \in DOMAIN metrics \cup DOMAIN DeliveryMetrics(filtered_df) |->
                      IF c \in DOMAIN metrics THEN metrics[c]
                      ELSE DeliveryMetrics(filtered_df)[c]]
    /\ pc' = "dash_delivery"
    /\ UNCHANGED <<copy_on_write, raw, cleaned_csv, cache, shared, df, fn, arg, res, rfm_df, missing_data, msgs,
                   sel, filtered_df, restaurant_cancellation>>

\* lines 567-588 raise and the render stops: at line 571 before anything
\* is shown when there is no row, at line 588 after the three delivery
\* counts and their percentages have been shown when no row has a rating
DashDeliveryMetricsError ==
    /\ pc = "dash_months"
    /\ DeliveryMetricsRaise(filtered_df)
    /\ LET shown == IF NRows(filtered_df) = 0 THEN {}
                    ELSE DOMAIN DeliveryMetrics(filtered_df) \ {"avg_rating"}
       IN  metrics' = [c \in DOMAIN metrics \cup shown |->
                          IF c \in DOMAIN metrics THEN metrics[c]
                          ELSE DeliveryMetrics(filtered_df)[c]]
    /\ pc' = "error"
    /\ UNCHANGED <<copy_on_write, raw, cleaned_csv, cache, shared, df, fn, arg, res, rfm_df, missing_data, msgs,
                   sel, filtered_df, restaurant_cancellation>>

\* lines 656-667: the cancellation-by-restaurant view
DashRestaurantCancellation ==
    /\ pc = "dash_delivery"
    /\ restaurant_cancellation' \in RestaurantCancellation(filtered_df)
    /\ pc' = "dash_restaurants"
    /\ UNCHANGED <<copy_on_write, raw, cleaned_csv, cache, shared, df, fn, arg, res, rfm_df, missing_data, msgs,
                   sel, filtered_df, metrics>>

\* lines 768-775: the per-customer frame
DashRfmAggregate ==
    /\ pc = "dash_restaurants"
    /\ \E now \in Nows : rfm_df' = RfmAggregate(filtered_df, now)
    /\ pc' = "rfm"
    /\ UNCHANGED <<copy_on_write, raw, cleaned_csv, cache, shared, df, fn, arg, res, missing_data, msgs, sel,
                   filtered_df, metrics, restaurant_cancellation>>

\* a widget changes after the script has ended (to its last line, with an
\* exception or at st.stop): Streamlit runs the script again from the top
DashRerun ==
    /\ pc \in {"segmented", "error", "stopped"}
    /\ pc' = "dash"
    /\ df' = NoFrame
    /\ rfm_df' = NoFrame
    /\ msgs' = {}
    /\ sel' = NoFrame
    /\ filtered_df' = NoFrame
    /\ metrics' = NoFrame
    /\ restaurant_cancellation' = <<>>
    /\ shared' = FALSE
    /\ UNCHANGED <<copy_on_write, raw, cleaned_csv, cache, fn, arg, res, missing_data>>

NextDash ==
    \/ DashLoad
    \/ DashDateFilter
    \/ DashCityFilter
    \/ DashStatusFilter
    \/ DashCuisineFilter
    \/ DashKeyMetrics
    \/ DashYearMonth
    \/ DashDeliveryMetrics
    \/ DashDeliveryMetricsError
    \/ DashRestaurantCancellation
    \/ DashRfmAggregate
    \/ StepRfmScores
    \/ StepRfmScoresError
    \/ StepRfmCode
    \/ StepRfmSegment
    \/ DashRerun

SpecDash == InitDash /\ [][NextDash]_vars

----------------------------------------------------------------------------
(* The row classifiers, each applied to one value                          *)

MaxMinutes == 60

Minutes == 0..MaxMinutes \cup {NaN}
Hours == 0..23 \cup {NaN}
ScoreDigits == {"1", "2", "3", "4"}
Codes == {<<r, f, m>> : r \in ScoreDigits, f \in ScoreDigits, m \in ScoreDigits}

InitRows ==
    /\ pc = "rows"
    /\ copy_on_write \in BOOLEAN
    /\ raw = NoFrame
    /\ df = NoFrame
    /\ fn = "none" /\ arg = 0 /\ res = 0
    /\ rfm_df = NoFrame
    /\ missing_data = <<>>
    /\ DashIdle

\* src/Food_analysis.py line 189
CallDeliveryCategory ==
    \E time \in Minutes :
        /\ fn' = "delivery_category"
        /\ arg' = time
        /\ res' = delivery_category(time)
        /\ UNCHANGED <<pc, copy_on_write, raw, df, rfm_df, missing_data, dashVars>>

\* src/Food_analysis.py lines 169-171
CallPeakHour ==
    \E x \in Hours :
        /\ fn' = "peak_hour"
        /\ arg' = x
        /\ res' = peak_hour(x)
        /\ UNCHANGED <<pc, copy_on_write, raw, df, rfm_df, missing_data, dashVars>>

\* src/food_analysis.py line 798
CallSegmentCustomer ==
    \E score \in Codes :
        /\ fn' = "segment_customer"
        /\ arg' = score
        /\ res' = segment_customer(score)
        /\ UNCHANGED <<pc, copy_on_write, raw, df, rfm_df, missing_data, dashVars>>

NextRows ==
    \/ CallDeliveryCategory
    \/ CallPeakHour
    \/ CallSegmentCustomer

SpecRows == InitRows /\ [][NextRows]_vars

----------------------------------------------------------------------------
(* Claims about the cleaning stage                                         *)

Cleaned == pc \in {"cleaned", "featured"}
CappedColumns == {"Order_Value", "Delivery_Time_Min"}

\* C1 (as stated): after cleaning, every row whose Order_Status is
\* 'cancelled' has a null Restaurant_Rating and a null Delivery_Rating.
C1_CancelledRatingsNull ==
    Cleaned =>
        \A i \in 1..NRows(df) :
            df["Order_Status"][i] = Cancelled =>
                /\ df["Restaurant_Rating"][i] = NaN
                /\ df["Delivery_Rating"][i] = NaN

\* C2 (as stated): cleaning an already-cleaned table returns the same table.
C2_CleanIdempotent ==
    pc = "cleaned" => CleanTable(df, copy_on_write) = df

\* C2 (amended): cleaning an already-cleaned table leaves every column other
\* than Order_Value and Delivery_Time_Min unchanged, adds and removes no row
\* or column, and moves the values of the two capped columns only inward:
\* a value that changes stays within the column's previous minimum and maximum.
C2_RecleanOnlyCapsInward ==
    pc = "cleaned" =>
        LET again == CleanTable(df, copy_on_write)
        IN  /\ DOMAIN again = DOMAIN df
            /\ \A c \in DOMAIN df \ CappedColumns : again[c] = df[c]
            /\ \A c \in CappedColumns :
                  /\ Len(again[c]) = Len(df[c])
                  /\ \A i \in 1..Len(df[c]) :
                        /\ (df[c][i] = NaN) = (again[c][i] = NaN)
                        /\ again[c][i] # df[c][i] =>
                              \E j, k \in 1..Len(df[c]) :
                                  /\ df[c][j] # NaN /\ df[c][k] # NaN
                                  /\ df[c][j] <= again[c][i]
                                  /\ again[c][i] <= df[c][k]

\* a cleaned table with a normalized status and a title-cased city that a
\* second pass of cap_outliers changes
C2_Witness ==
    /\ pc = "cleaned"
    /\ CleanTable(df, copy_on_write)["Order_Value"] # df["Order_Value"]
    /\ \E i \in 1..NRows(df) : raw["Order_Value"][i] # df["Order_Value"][i]

\* C3: after cleaning, every non-null Order_Value and Delivery_Time_Min lies
\* in [Q1 - 1.5 IQR, Q3 + 1.5 IQR] of the column as it was just before
\* clipping (after imputation); a value outside is moved to the nearer bound,
\* a value inside is unchanged, and no row is removed.
C3_WithinFences ==
    pc \in {"capped", "clipped", "standardized", "cleaned", "featured"} =>
        \A c \in CappedColumns :
            LET before == FillMissing(raw, copy_on_write)[c]
                Q1 == quantile(before, 1, 4)
                Q3 == quantile(before, 3, 4)
                lower2 == 2 * Q1 - 3 * (Q3 - Q1)
                upper2 == 2 * Q3 + 3 * (Q3 - Q1)
            IN  /\ Len(df[c]) = Len(raw[c])
                /\ \A i \in 1..Len(df[c]) :
                      IF before[i] = NaN THEN df[c][i] = NaN
                      ELSE /\ df[c][i] # NaN
                           /\ lower2 <= 2 * df[c][i] /\ 2 * df[c][i] <= upper2
                           /\ 2 * before[i] < lower2 => 2 * df[c][i] = lower2
                           /\ 2 * before[i] > upper2 => 2 * df[c][i] = upper2
                           /\ (lower2 <= 2 * before[i] /\ 2 * before[i] <= upper2)
                                 => df[c][i] = before[i]

\* an outlier was moved to the upper bound
C3_Witness ==
    /\ pc = "cleaned"
    /\ \E i \in 1..NRows(df) :
          /\ raw["Order_Value"][i] = 40 * Unit
          /\ df["Order_Value"][i] < 40 * Unit
          /\ df["Order_Value"][i] # NaN

\* C4: after cleaning Restaurant_Rating is null or in [0, 5] and
\* Profit_Margin is null or >= 0; a rating above 5 became 5, a value below 0
\* became 0, and a value in range is unchanged.
C4_RatingAndMarginClamped ==
    Cleaned =>
        \A i \in 1..NRows(df) :
            LET r0 == raw["Restaurant_Rating"][i]
                r == df["Restaurant_Rating"][i]
                p0 == raw["Profit_Margin"][i]
                p == df["Profit_Margin"][i]
            IN  /\ r = NaN \/ (0 <= r /\ r <= 5)
                /\ p = NaN \/ p >= 0
                /\ r0 = NaN => r = NaN
                /\ (r0 # NaN /\ r0 > 5) => r = 5
                /\ (r0 # NaN /\ r0 < 0) => r = 0
                /\ (r0 # NaN /\ 0 <= r0 /\ r0 <= 5) => r = r0
                /\ p0 = NaN => p = NaN
                /\ (p0 # NaN /\ p0 < 0) => p = 0
                /\ (p0 # NaN /\ p0 >= 0) => p = p0

\* a rating above 5 and a negative margin were clamped
C4_Witness ==
    /\ pc = "cleaned"
    /\ \E i \in 1..NRows(df) :
          /\ raw["Restaurant_Rating"][i] = 7 /\ df["Restaurant_Rating"][i] = 5
          /\ raw["Profit_Margin"][i] = -Unit /\ df["Profit_Margin"][i] = 0

\* C5 (as stated): every missing Order_Value and Delivery_Time_Min is replaced by the
\* median of the column's present raw values (taken before any capping);
\* present values are not altered by the imputation step, and a column with
\* at least one present value has no missing value after cleaning.
C5_MedianImputation ==
    \A c \in CappedColumns :
        /\ pc = "filled" =>
              \A i \in 1..Len(raw[c]) :
                  raw[c][i] # NaN => df[c][i] = raw[c][i]
        /\ pc \in {"filled", "capped", "clipped", "standardized", "cleaned", "featured"} =>
              LET s == SortAsc(Present(raw[c]))
                  n == Len(s)
              IN  \A i \in 1..Len(raw[c]) :
                      raw[c][i] = NaN =>
                          IF n = 0 THEN df[c][i] = NaN
                          ELSE /\ df[c][i] # NaN
                               /\ 2 * df[c][i] = s[(n + 1) \div 2] + s[(n + 2) \div 2]

\* C8 (as stated): Profit_Margin_pct is Profit_Margin / Order_Value * 100
\* rounded to 2 decimals when Order_Value is non-zero, and null when
\* Order_Value is 0.
C8_PctNullOnZeroValue ==
    pc = "featured" =>
        \A i \in 1..NRows(df) :
            LET pm == df["Profit_Margin"][i]
                ov == df["Order_Value"][i]
                pct == df["Profit_Margin_pct"][i]
            IN  /\ ov = 0 => pct = NaN
                /\ (ov # NaN /\ ov > 0 /\ pm # NaN) =>
                      \* |pct/100 - pm/ov*100| <= 0.005
                      /\ 2 * (pct * ov - pm * 10000) <= ov
                      /\ 2 * (pm * 10000 - pct * ov) <= ov

\* a zero order value with a positive margin reached feature engineering
C8_Reached ==
    /\ pc = "featured"
    /\ \E i \in 1..NRows(df) : df["Order_Value"][i] = 0 /\ df["Profit_Margin_pct"][i] = Inf

----------------------------------------------------------------------------
(* Claims about the row classifiers                                        *)

\* C6: delivery_category(time) is 'Fast' for time <= 30, 'On-Time' for
\* 30 < time <= 45 and 'Delayed' for time > 45.
C6_DeliveryBuckets ==
    (fn = "delivery_category" /\ arg # NaN) =>
        /\ arg <= 30 => res = "Fast"
        /\ (30 < arg /\ arg <= 45) => res = "On-Time"
        /\ arg > 45 => res = "Delayed"

\* the boundary 45 is classified
C6_Witness == fn = "delivery_category" /\ arg = 45 /\ res = "On-Time"

\* C7: for every hour 0..23 the peak-hour flag is 1 exactly when the hour is
\* in 12..14 or 19..22, and 0 otherwise.
C7_PeakHours ==
    (fn = "peak_hour" /\ arg \in 0..23) =>
        /\ res \in {0, 1}
        /\ res = 1 <=> arg \in (12..14) \cup (19..22)

\* the boundary 22 is flagged
C7_Witness == fn = "peak_hour" /\ arg = 22 /\ res = 1

\* C9: segment_customer maps a code of three digits r, f, m in 1..4 by the
\* first rule that matches: r>=3, f>=3, m>=3 'Champions'; r>=3, f>=2 'Loyal
\* Customers'; r>=3 'Potential Loyalists'; f>=3 'At Risk'; else 'Lost'.
C9_SegmentPrecedence ==
    fn = "segment_customer" =>
        \A r, f, m \in 1..4 :
            arg = <<Digits[r + 1], Digits[f + 1], Digits[m + 1]>> =>
                LET champions == r >= 3 /\ f >= 3 /\ m >= 3
                    loyal == r >= 3 /\ f >= 2
                    potential == r >= 3
                    atrisk == f >= 3
                IN  /\ champions => res = "Champions"
                    /\ (~champions /\ loyal) => res = "Loyal Customers"
                    /\ (~champions /\ ~loyal /\ potential) => res = "Potential Loyalists"
                    /\ (~champions /\ ~loyal /\ ~potential /\ atrisk) => res = "At Risk"
                    /\ (~champions /\ ~loyal /\ ~potential /\ ~atrisk) => res = "Lost"

\* the code 444 is labeled
C9_Witness == fn = "segment_customer" /\ arg = <<"4", "4", "4">> /\ res = "Champions"

----------------------------------------------------------------------------
(* Claims about RFM scoring                                                *)

Distinct(x) == \A i, j \in 1..Len(x) : i # j => x[i] # x[j]

EightDistinct ==
    /\ NCust(rfm_df) = 8
    /\ Distinct(rfm_df["Recency"])
    /\ Distinct(rfm_df["Frequency"])
    /\ Distinct(rfm_df["Monetary"])

\* C10: for 8 customers with pairwise distinct recency, frequency and
\* monetary values, the scoring does not fail and gives each of the scores
\* 1, 2, 3, 4 to exactly 2 customers, for R_Score, F_Score and M_Score.
C10_TwoPerQuartile ==
    EightDistinct =>
        /\ pc # "error"
        /\ pc \in {"scored", "coded", "segmented"} =>
              \A c \in {"R_Score", "F_Score", "M_Score"} :
                  \A v \in 1..4 :
                      Cardinality({i \in 1..8 : rfm_df[c][i] = v}) = 2

\* eight customers in an order of recency other than the default were scored
C10_Witness ==
    /\ pc = "scored"
    /\ EightDistinct
    /\ rfm_df["Recency"][1] < rfm_df["Recency"][2]
    /\ rfm_df["R_Score"][1] = 4

Scored == pc \in {"scored", "coded", "segmented"}

\* C11: recency is scored inversely and frequency and monetary directly:
\* a lower recency never has a lower R_Score, a lower frequency or monetary
\* value never has a higher F_Score or M_Score; the most recent customer
\* scores 4 and the least recent 1.
C11_ScoreDirection ==
    Scored =>
        \A a, b \in 1..NCust(rfm_df) :
            /\ rfm_df["Recency"][a] < rfm_df["Recency"][b]
                  => rfm_df["R_Score"][a] >= rfm_df["R_Score"][b]
            /\ rfm_df["Monetary"][a] < rfm_df["Monetary"][b]
                  => rfm_df["M_Score"][a] <= rfm_df["M_Score"][b]
            /\ rfm_df["Frequency"][a] < rfm_df["Frequency"][b]
                  => rfm_df["F_Score"][a] <= rfm_df["F_Score"][b]
            /\ (\A c \in 1..NCust(rfm_df) : rfm_df["Recency"][a] <= rfm_df["Recency"][c])
                  => rfm_df["R_Score"][a] = 4
            /\ (\A c \in 1..NCust(rfm_df) : rfm_df["Recency"][a] >= rfm_df["Recency"][c])
                  => rfm_df["R_Score"][a] = 1

\* the first customer is the most recent and the second the least recent
C11_Witness ==
    /\ pc = "scored"
    /\ NCust(rfm_df) >= 4
    /\ rfm_df["Recency"][1] < rfm_df["Recency"][2]
    /\ rfm_df["R_Score"][1] = 4
    /\ rfm_df["R_Score"][2] = 1

\* C12 (as stated): for every non-empty population, with ties or with fewer
\* than 4 customers, the segmentation completes without error and every
\* customer gets three scores in 1..4, a 3-character code and a label.
C12_SegmentationTotal ==
    /\ pc # "error"
    /\ pc = "segmented" =>
          \A i \in 1..NCust(rfm_df) :
              /\ rfm_df["R_Score"][i] \in 1..4
              /\ rfm_df["F_Score"][i] \in 1..4
              /\ rfm_df["M_Score"][i] \in 1..4
              /\ Len(rfm_df["RFM_Score"][i]) = 3
              /\ rfm_df["Segment"][i] \in {"Champions", "Loyal Customers",
                                           "Potential Loyalists", "At Risk", "Lost"}

SizeOf(col, v) == Cardinality({i \in 1..Len(col) : col[i] = v})

\* C20: F_Score is cut on the first-occurrence rank of Frequency, so ties in
\* Frequency never make the scoring fail; for n >= 4 customers all four
\* F_Score values are assigned, their group sizes differ by at most 1 (n/4
\* each when 4 divides n), and among customers with equal Frequency an
\* earlier one never has a higher F_Score than a later one.
C20_FrequencyTies ==
    LET n == NCust(rfm_df) IN
    /\ (pc = "error" /\ n >= 2) =>
          ~(Distinct(rfm_df["Recency"]) /\ Distinct(rfm_df["Monetary"]))
    /\ (Scored /\ n >= 4) =>
          /\ \A v \in 1..4 : SizeOf(rfm_df["F_Score"], v) >= 1
          /\ \A v, w \in 1..4 :
                SizeOf(rfm_df["F_Score"], v) - SizeOf(rfm_df["F_Score"], w) <= 1
          /\ n % 4 = 0 => \A v \in 1..4 : 4 * SizeOf(rfm_df["F_Score"], v) = n
          /\ \A i, j \in 1..n :
                (i < j /\ rfm_df["Frequency"][i] = rfm_df["Frequency"][j])
                    => rfm_df["F_Score"][i] <= rfm_df["F_Score"][j]

\* six customers with the same order count were scored 1, 2, 3 and 4
C20_Witness ==
    /\ pc = "scored"
    /\ NCust(rfm_df) = 6
    /\ \A i \in 1..6 : rfm_df["Frequency"][i] = rfm_df["Frequency"][1]
    /\ rfm_df["F_Score"][1] = 1
    /\ rfm_df["F_Score"][6] = 4

----------------------------------------------------------------------------
(* Claims about the missing-value report and the categorical columns       *)

Reported == pc \in {"reported", "filled", "capped", "clipped", "standardized",
                    "cleaned", "featured"}

\* C18: the missing-value report has exactly the columns with at least one
\* null, each with Missing_Count = its number of nulls and Missing_Percentage
\* = Missing_Count / rows * 100 rounded to 2 decimals, sorted by Missing_Count
\* descending; 3 nulls in 10 rows read Missing_Count 3, Missing_Percentage 30.0.
C18_MissingReport ==
    Reported =>
        LET n == NRows(raw)
            nulls(c) == {i \in 1..n : isnull(c, raw[c][i])}
        IN  /\ {missing_data[k].Column : k \in 1..Len(missing_data)}
                  = {c \in DOMAIN raw : nulls(c) # {}}
            /\ \A k, l \in 1..Len(missing_data) :
                  /\ k # l => missing_data[k].Column # missing_data[l].Column
                  /\ k < l => missing_data[k].Missing_Count >= missing_data[l].Missing_Count
            /\ \A k \in 1..Len(missing_data) :
                  LET e == missing_data[k]
                      cnt == Cardinality(nulls(e.Column))
                  IN  /\ e.Missing_Count = cnt
                      /\ 2 * (e.Missing_Percentage * n - cnt * 10000) <= n
                      /\ 2 * (cnt * 10000 - e.Missing_Percentage * n) <= n
                      /\ (n = 10 /\ cnt = 3) => e.Missing_Percentage = 3000

\* a 10-row table with 3 missing order values, reported below a column
\* with more missing values
C18_Witness ==
    /\ pc = "reported"
    /\ NRows(raw) = 10
    /\ \E k \in 2..Len(missing_data) :
          /\ missing_data[k].Column = "Order_Value"
          /\ missing_data[k].Missing_Count = 3
          /\ missing_data[k].Missing_Percentage = 3000
          /\ missing_data[k - 1].Missing_Count > 3

\* a string with its case and surrounding whitespace removed
Canonical(s) == str_lower(str_strip(s))

\* C19 (as stated): after cleaning, two City values are equal exactly when
\* the raw values differ at most in letter case and surrounding whitespace,
\* and likewise two Order_Status values.
C19_CategoriesCanonical ==
    Cleaned =>
        \A c \in {"City", "Order_Status"} :
            \A i, j \in 1..NRows(df) :
                (df[c][i] = df[c][j]) <=> (Canonical(raw[c][i]) = Canonical(raw[c][j]))

----------------------------------------------------------------------------
(* Claims about the dashboard                                              *)

\* the rows of the filtered frame that belong to one restaurant
OrdersOf(name) ==
    {i \in 1..NRows(filtered_df) : filtered_df["Restaurant_Name"][i] = name}

RestaurantsListed == pc \in {"dash_restaurants", "rfm", "scored", "coded", "segmented"}

\* C13: in the cancellation-by-restaurant view no restaurant with fewer
\* than 10 total orders appears, whatever its rate; every listed restaurant
\* has Total Orders >= 10 (its number of filtered rows), the list is sorted
\* by Cancellation Rate descending and holds at most 10 restaurants.
C13_RankedRestaurants ==
    RestaurantsListed =>
        LET rc == restaurant_cancellation
        IN  /\ Len(rc) <= 10
            /\ \A k \in 1..Len(rc) :
                  /\ rc[k].Total_Orders >= 10
                  /\ rc[k].Total_Orders = Cardinality(OrdersOf(rc[k].Restaurant))
                  /\ rc[k].Cancellation_Rate = Ratio(rc[k].Cancelled * 100, rc[k].Total_Orders)
            /\ \A name \in unique(filtered_df["Restaurant_Name"]) :
                  Cardinality(OrdersOf(name)) < 10 =>
                      \A k \in 1..Len(rc) : rc[k].Restaurant # name
            /\ \A k, l \in 1..Len(rc) :
                  k < l => rc[k].Cancelled * rc[l].Total_Orders
                               >= rc[l].Cancelled * rc[k].Total_Orders

\* more than 10 restaurants qualify, one with 9 orders, all of them
\* cancelled, is left out, and the rates listed differ
C13_Witness ==
    /\ pc = "dash_restaurants"
    /\ Len(restaurant_cancellation) = 10
    /\ Cardinality({name \in unique(filtered_df["Restaurant_Name"]) :
                        Cardinality(OrdersOf(name)) >= 10}) > 10
    /\ \E name \in unique(filtered_df["Restaurant_Name"]) :
          /\ Cardinality(OrdersOf(name)) = 9
          /\ \A i \in OrdersOf(name) : filtered_df["Order_Status"][i] = CancelledLabel
    /\ restaurant_cancellation[1].Cancelled > restaurant_cancellation[10].Cancelled

\* the render read a table of the kind the cleaning stage writes
OnCleanedTable == cleaned_csv # NoFile /\ pc \notin {"dash", "stopped"}

\* C14 (as stated): on a cleaned table the headline figures count the
\* filtered rows whose status is cancelled, the rate is 100 * cancelled /
\* rows, each listed restaurant's Cancelled is its number of cancelled rows,
\* and a table with cancelled orders never yields a cancelled count of 0.
C14_CancelledCounted ==
    (OnCleanedTable /\ metrics # NoFrame) =>
        LET n == NRows(filtered_df)
            cancelled == CountStatus(filtered_df, Cancelled)
        IN  /\ metrics.cancelled = cancelled
            /\ n > 0 => metrics.cancellation_rate = Ratio(100 * cancelled, n)
            /\ cancelled > 0 => metrics.cancelled > 0
            /\ \A k \in 1..Len(restaurant_cancellation) :
                  restaurant_cancellation[k].Cancelled =
                      Cardinality({i \in OrdersOf(restaurant_cancellation[k].Restaurant) :
                                      filtered_df["Order_Status"][i] = Cancelled})

\* C15 (as stated): when the filters select no order the render completes
\* without raising.
C15_EmptyRenders ==
    (pc = "error") => NRows(filtered_df) > 0

\* C16 (as stated): when the filtered table has 0 orders the headline
\* cancellation rate is null.
C16_RateNullOnEmpty ==
    (metrics # NoFrame /\ metrics.total_orders = 0) =>
        metrics.cancellation_rate = NaNRatio

\* C16 (amended): when the filtered table has 0 orders the headline
\* cancellation rate is the number 0, and the headline metrics are computed
\* without an exception (a render that raises has them already).
C16_RateZeroOnEmpty ==
    /\ (metrics # NoFrame /\ metrics.total_orders = 0) =>
            metrics.cancellation_rate = Ratio(0, 1)
    /\ (pc = "error") => metrics # NoFrame
    /\ (pc \in {"dash_metrics", "dash_delivery", "dash_restaurants"}) =>
            /\ metrics # NoFrame
            /\ metrics.total_orders = NRows(filtered_df)

C16_Witness ==
    /\ pc = "dash_metrics"
    /\ NRows(df) > 0
    /\ NRows(filtered_df) = 0
    /\ metrics.total_orders = 0
    /\ metrics.cancellation_rate = Ratio(0, 1)

\* C17: load_data reads the cleaned file when it is there; the raw file
\* only when the cleaned one fails, with a warning, and the run continues;
\* when both fail it shows an error and returns None, and the run stops
\* before any filter, metric or aggregate is computed.
C17_LoadOrder ==
    /\ pc = "dash" => (df = NoFrame /\ msgs = {})
    /\ pc # "dash" =>
          /\ cleaned_csv # NoFile =>
                (df = ConvertDate(cleaned_csv) /\ msgs = {} /\ pc # "stopped")
          /\ (cleaned_csv = NoFile /\ raw # NoFile) =>
                (df = ConvertDate(raw) /\ msgs = {"warning"} /\ pc # "stopped")
          /\ (cleaned_csv = NoFile /\ raw = NoFile) =>
                (pc = "stopped" /\ msgs = {"error"} /\ df = NoFrame)
    /\ pc = "stopped" =>
          /\ sel = NoFrame /\ filtered_df = NoFrame /\ metrics = NoFrame
          /\ restaurant_cancellation = <<>> /\ rfm_df = NoFrame

C17_Witness ==
    pc = "stopped" /\ msgs = {"error"} /\ raw = NoFile /\ cleaned_csv = NoFile

----------------------------------------------------------------------------
(* Claims about the sentinel and the segment table                         *)

\* C23 (as stated): after cleaning, a row has Cancellation_Reason =
\* 'Not Cancelled' only if its Order_Status is not 'cancelled', and a row
\* whose reason was present keeps it unchanged.
C23_SentinelConsistent ==
    Cleaned =>
        \A i \in 1..NRows(df) :
            /\ df["Cancellation_Reason"][i] = NotCancelled =>
                   df["Order_Status"][i] # Cancelled
            /\ raw["Cancellation_Reason"][i] # StrNaN =>
                   df["Cancellation_Reason"][i] = raw["Cancellation_Reason"][i]

\* the label the table of C24 gives to the scores r, f, m
LabelOf(r, f, m) ==
    CASE r <= 2 /\ f <= 2 -> "Lost"
      [] r <= 2 /\ f >= 3 -> "At Risk"
      [] r >= 3 /\ f = 1 -> "Potential Loyalists"
      [] r >= 3 /\ f >= 3 /\ m >= 3 -> "Champions"
      [] OTHER -> "Loyal Customers"

\* C24: every code with r, f, m in 1..4 gets exactly one of the five
\* labels: 'Lost' iff r <= 2 and f <= 2, 'At Risk' iff r <= 2 and f >= 3,
\* 'Potential Loyalists' iff r >= 3 and f = 1, 'Champions' iff r >= 3,
\* f >= 3 and m >= 3, 'Loyal Customers' otherwise; the monetary score
\* changes the label only between 'Champions' and 'Loyal Customers'.
C24_SegmentTable ==
    fn = "segment_customer" =>
        LET r == int_of(arg[1])
            f == int_of(arg[2])
            m == int_of(arg[3])
        IN  /\ res = LabelOf(r, f, m)
            /\ \A m2 \in ScoreDigits :
                  segment_customer(<<arg[1], arg[2], m2>>) # res =>
                      {segment_customer(<<arg[1], arg[2], m2>>), res}
                          = {"Champions", "Loyal Customers"}

\* a code whose label the monetary score decides
C24_Witness ==
    /\ fn = "segment_customer"
    /\ arg = <<"4", "3", "2">>
    /\ res = "Loyal Customers"

----------------------------------------------------------------------------
(* Claims about the filters                                                *)

\* the rows of df that the selections sel let through
Selected ==
    {i \in 1..NRows(df) :
        /\ Len(sel.date_range) = 2 =>
              /\ df["Order_Date"][i] # NaN
              /\ df["Order_Date"][i] >= sel.date_range[1]
              /\ df["Order_Date"][i] <= sel.date_range[2]
        /\ sel.city # All => df["City"][i] = sel.city
        /\ sel.status # All => df["Order_Status"][i] = sel.status
        /\ All \notin sel.cuisine => df["Cuisine_Type"][i] \in sel.cuisine}

FiltersDone == "cuisine" \in DOMAIN sel

\* C21: the loaded table is never modified. After load_data df stays the
\* table the cache holds, whatever the filters and through the YearMonth
\* assignment; filtered_df is, on the columns of df, the rows of df that the
\* selections let through; no step of a render changes df and no render
\* changes the cached table.
C21_LoadedTableImmutable ==
    /\ [](pc \notin {"dash", "stopped"} =>
            /\ df = cache[1].df
            /\ "YearMonth" \notin DOMAIN df
            /\ FiltersDone =>
                  [c \in DOMAIN df |-> filtered_df[c]] = Rows(df, Selected))
    /\ [][/\ (pc # "dash" /\ pc' # "dash") => df' = df
          /\ cache # <<>> => cache' = cache]_vars

\* the YearMonth column has been added in a render whose filters all let
\* every row through (one date picked, so the date filter takes the frame
\* as it is)
C21_Witness ==
    /\ pc = "dash_months"
    /\ "YearMonth" \in DOMAIN filtered_df
    /\ NRows(filtered_df) > 0
    /\ NRows(filtered_df) = NRows(df)
    /\ Len(sel.date_range) = 1
    /\ sel.city = All /\ sel.status = All /\ sel.cuisine = {All}

\* every filter at its default
DefaultSelection ==
    /\ FiltersDone
    /\ LET dates == {df["Order_Date"][i] : i \in 1..NRows(df)} \ {NaN}
       IN  sel.date_range = IF dates = {} THEN <<>>
                            ELSE <<Least(dates), Greatest(dates)>>
    /\ sel.city = All
    /\ sel.status = All
    /\ sel.cuisine = {All}

\* C22 (as stated): with every filter at its default the filtered table
\* equals the loaded table row for row, rows with a null Order_Date
\* included, so N = M.
C22_DefaultKeepsAll ==
    DefaultSelection =>
        /\ NRows(filtered_df) = NRows(df)
        /\ [c \in DOMAIN df |-> filtered_df[c]] = df

====
